---- MODULE Spec2Model ----
(***************************************************************************)
(* Model of the concurrency demos of learn-golang.                         *)
(*                                                                         *)
(* errGroup (04.concurrent/sync/sync.go, lines 191-239): a cancellable     *)
(* context, an errgroup.Group derived from it, one goroutine per URL       *)
(* started with group.Go, and group.Wait collecting the first error.       *)
(*                                                                         *)
(* group.Go(f) runs                                                        *)
(*     wg.Add(1); go func() { defer wg.Done()                              *)
(*         if err := f(); err != nil {                                     *)
(*             errOnce.Do(func() { g.err = err; cancel() }) } }()          *)
(* and group.Wait runs  wg.Wait(); cancel(); return g.err.                 *)
(* g.err is private to the group and is read only by Wait after wg.Wait,   *)
(* so the body of errOnce.Do is one step for every observer.               *)
(***************************************************************************)
EXTENDS Integers, Sequences, FiniteSets, TLC

\* Largest number of URLs (tasks) the urls slice is given in the model.
MaxUrls == 3

Tasks == 1..MaxUrls

----------------------------------------------------------------------------
(* Error values.  An error is a record; Nil is Go's nil error.              *)

Nil == [msg |-> "nil", url |-> 0, wrapped |-> FALSE]

\* context.Canceled, the value of ctx.Err() once the context is cancelled.
Canceled == [msg |-> "context canceled", url |-> 0, wrapped |-> FALSE]

\* fmt.Errorf("failed to fetch %s: %v", url, err) for the i-th URL.
FetchErr(i) == [msg |-> "failed to fetch", url |-> i, wrapped |-> FALSE]

\* fmt.Errorf("one of the goroutines failed: %v", err)
WrapErr(e) == [e EXCEPT !.wrapped = TRUE]

----------------------------------------------------------------------------
(* context.WithCancel: a context is its done channel (closed or not), its   *)
(* err, and the number of times its done channel has been closed (a second  *)
(* close of a Go channel panics).                                           *)

NewCtx == [done |-> FALSE, err |-> Nil, closes |-> 0]

\* Mutant of Cancel: no "already canceled" early return.
CancelNoGuard(c) ==
    [done |-> TRUE, err |-> Canceled, closes |-> c.closes + 1]

\* Mutant of Cancel: the call flips the flag instead of setting it.
CancelToggle(c) ==
    IF c.done THEN NewCtx
    ELSE [done |-> TRUE, err |-> Canceled, closes |-> c.closes + 1]

\* The CancelFunc: sets err and closes done, unless already cancelled.
Cancel(c) ==
    IF c.err # Nil THEN c
    ELSE [done |-> TRUE, err |-> Canceled, closes |-> c.closes + 1]

\* ctx.Err()
CtxErr(c) == c.err

----------------------------------------------------------------------------
(* sync.WaitGroup inside the group.                                         *)

\* Mutant of WgAdd: the counter is raised by two for one goroutine.
WgAddTwo(g) == [g EXCEPT !.wg = @ + 2]

\* wg.Add(1)
WgAdd(g) == [g EXCEPT !.wg = @ + 1]

\* Mutant of WgDone: the goroutine leaves without calling Done.
WgDoneMissing(g) == g

\* wg.Done()
WgDone(g) == [g EXCEPT !.wg = @ - 1]

\* Mutant of WgWaitReady: Wait does not block.
WgWaitReadyAlways(g) == TRUE

\* wg.Wait() may return
WgWaitReady(g) == g.wg = 0

----------------------------------------------------------------------------
(* The part of group.Go's goroutine that runs after f() has returned err:   *)
(* errOnce.Do(func() { g.err = err; cancel() }).  Result: group and ctx.    *)

\* Mutant of GoWrapper: no errOnce, every error is stored.
GoWrapperNoOnce(g, c, err) ==
    IF err # Nil
    THEN [group |-> [g EXCEPT !.errOnce = TRUE, !.err = err], ctx |-> Cancel(c)]
    ELSE [group |-> g, ctx |-> c]

\* Mutant of GoWrapper: the first error is stored but cancel is not called.
GoWrapperNoCancel(g, c, err) ==
    IF err # Nil /\ ~g.errOnce
    THEN [group |-> [g EXCEPT !.errOnce = TRUE, !.err = err], ctx |-> c]
    ELSE [group |-> g, ctx |-> c]

\* Mutant of GoWrapper: cancel first, then store the context's error.
GoWrapperStoresCtxErr(g, c, err) ==
    IF err # Nil /\ ~g.errOnce
    THEN [group |-> [g EXCEPT !.errOnce = TRUE, !.err = CtxErr(Cancel(c))],
          ctx |-> Cancel(c)]
    ELSE [group |-> g, ctx |-> c]

GoWrapper(g, c, err) ==
    IF err # Nil /\ ~g.errOnce
    THEN [group |-> [g EXCEPT !.errOnce = TRUE, !.err = err], ctx |-> Cancel(c)]
    ELSE [group |-> g, ctx |-> c]

\* Mutant of GroupWaitResult: a cancelled context counts as an error.
GroupWaitResultCtx(g, c) == IF g.err # Nil THEN g.err ELSE CtxErr(c)

\* The value group.Wait returns; c is the context after Wait's own cancel.
GroupWaitResult(g, c) == g.err

\* Mutant of HttpGet: the request is bound to the context.
HttpGetWithCtx(i, c) == IF c.done THEN {Canceled} ELSE {Nil, FetchErr(i)}

\* Outcomes of the default branch: http.Get(url) succeeds or fails; the
\* request is not given the context.
HttpGet(i, c) == {Nil, FetchErr(i)}

----------------------------------------------------------------------------
(* The other demos of sync.go and of the goroutine file.  Each demo is one  *)
(* function that main runs on its own; its state is one record.            *)

VARIABLES
    raceDemo,      \* syncMutex, lines 39-47: counter1 without a lock
    mutexDemo,     \* syncMutex, lines 49-65: counter2 under sync.Mutex
    onceDemo,      \* syncOnce
    rwDemo,        \* syncRWMutex, lines 83-105
    atomicDemo,    \* syncAtomic
    chanStopDemo,  \* useChanStopGoroutine
    ctxStopDemo,   \* useContentStopGoroutine
    goDemo,        \* goroutineHello, safeGoroutine, anonymousFuncGoroutine
    errChDemo,     \* handleChannelError and performTask
    initChanDemo,  \* initChannel
    timeoutDemo    \* concurrentChannel, operation1, operation2

\* Number of goroutines the loops of syncMutex start (1000 in the source).
NumIncr == 3

Incrs == 1..NumIncr

\* syncMutex at line 40: counter1 is 0, no goroutine started.
RaceStart ==
    [main |-> "loop", spawned |-> 0,
     pc |-> [i \in Incrs |-> "idle"], tmp |-> [i \in Incrs |-> 0],
     counter1 |-> 0, printed |-> 0]

\* syncMutex at line 50: mu unlocked (0), counter2 and wg zero.
MutexStart ==
    [main |-> "loop", spawned |-> 0,
     pc |-> [i \in Incrs |-> "idle"], tmp |-> [i \in Incrs |-> 0],
     mu |-> 0, counter2 |-> 0, wg |-> 0, printed |-> 0]

\* Number of goroutines syncOnce starts.
NumOnce == 5

Callers == 1..NumOnce

\* syncOnce at line 169: once not done, its mutex m unlocked (0); runs and
\* completed count the starts and the ends of expensiveOperation.
OnceStart ==
    [main |-> "loop", spawned |-> 0,
     pc |-> [i \in Callers |-> "idle"],
     done |-> FALSE, m |-> 0, wg |-> 0, runs |-> 0, completed |-> 0]

\* Number of iterations of the loop of syncRWMutex (10 in the source); each
\* starts one writer and one reader.
NumPairs == 2

Pairs == 1..NumPairs

\* syncRWMutex at line 87.  The RWMutex is w, the writer that holds or waits
\* for the lock (0: none), and readers, the number of read locks held.
RWStart ==
    [main |-> "loop", spawned |-> 0,
     wpc |-> [i \in Pairs |-> "idle"], rpc |-> [i \in Pairs |-> "idle"],
     tmp |-> [i \in Pairs |-> 0], val |-> [i \in Pairs |-> 0],
     w |-> 0, readers |-> 0, safeCounter |-> 0, writes |-> <<>>, wg |-> 0]

\* Number of visitor goroutines of syncAtomic (100 in the source).
NumVisitors == 3

Visitors == 1..NumVisitors

\* syncAtomic at line 141: the printer goroutine is running, no visitor yet.
\* loaded is the last value the printer has loaded.
AtomicStart ==
    [main |-> "loop", spawned |-> 0,
     pc |-> [i \in Visitors |-> "idle"],
     visitorCount |-> 0, wg |-> 0,
     printer |-> "select", loaded |-> 0, final |-> 0]

\* Largest value of the loop counter i of useChanStopGoroutine in the model.
MaxLoops == 10

\* useChanStopGoroutine at line 119: the goroutine is in its for loop, main
\* has not reached the send yet.  afterStop counts the iterations of the
\* loop run after the stop signal was received.
ChanStopStart ==
    [main |-> "running", loop |-> "select", i |-> 0,
     gotStop |-> FALSE, afterStop |-> 0]

\* Largest number of default iterations of the loop of
\* useContentStopGoroutine in the model.
MaxSpins == 25

\* useContentStopGoroutine at line 126: ctx is created and not cancelled; the
\* goroutine is not started.  iters counts the default iterations, prints
\* the shutdown messages, observed tells that case <-ctx.Done() was taken.
CtxStopStart ==
    [main |-> "go", loop |-> "idle", ctx |-> NewCtx,
     iters |-> 0, prints |-> 0, observed |-> FALSE]

\* make(chan T, cap): the buffer, and the numbers of values sent and
\* received so far.
MakeChan(cap) == [buf |-> <<>>, cap |-> cap, sent |-> 0, received |-> 0]

\* The versions of the goroutine program: "noWait" is main of part_000 line
\* 41 (goroutineHello only, the sleep commented out), "safe" main of
\* part_000 line 102 (goroutineHello, safeGoroutine), "full" main of part_001.
Progs == {"noWait", "safe", "full"}

\* main of program p at its first call.  out is the standard output.
GoStart(p) ==
    [prog |-> p, main |-> "goroutineHello",
     hello |-> "idle", worker |-> "idle", anon |-> "idle",
     done |-> MakeChan(1), doneAnon |-> MakeChan(1), out |-> <<>>]

\* tasks := 5
NumTasks == 5

TaskIds == 0..(NumTasks - 1)

\* handleChannelError at line 204: errCh is empty, no task started.
\* received is the sequence of outcomes the collector has taken.
ErrChStart ==
    [main |-> "spawn", i |-> 0, pc |-> [id \in TaskIds |-> "idle"],
     errCh |-> MakeChan(NumTasks), received |-> <<>>, finished |-> FALSE]

Receivers == 1..2

\* initChannel at line 30: ch holds no pending send and is open, chBuffered
\* is empty.  value is what each receiver goroutine got from ch, zero tells
\* that it got the zero value of a closed channel.  step is the number of
\* statements main has run of bufferedChannel, its next call, and bufCh the
\* channel of that function.
InitChanStart ==
    [main |-> "go1", rpc |-> [r \in Receivers |-> "idle"],
     ch |-> <<>>, closed |-> FALSE, panicked |-> FALSE,
     value |-> [r \in Receivers |-> 0], zero |-> [r \in Receivers |-> FALSE],
     chBuffered |-> MakeChan(10), valueBuffered |-> 0,
     closedBuffered |-> FALSE, out |-> <<>>,
     step |-> 0, bufCh |-> MakeChan(2), bufClosed |-> FALSE]

\* Largest value of the clock of concurrentChannel in the model.
MaxTime == 4

Operations == 1..2

\* context.DeadlineExceeded
DeadlineExceeded ==
    [msg |-> "context deadline exceeded", url |-> 0, wrapped |-> FALSE]

\* Mutant of Deadline: the timeout is 3 seconds.
DeadlineLong(t) == t + 3

\* context.WithTimeout(context.Background(), 1*time.Second) called at time t.
Deadline(t) == t + 1

\* concurrentChannel at line 177, at time 0: the context is created with its
\* deadline, no operation started.  wake is the time an operation's Sleep
\* ends, report what it printed.
TimeoutStart ==
    [now |-> 0, main |-> "go1", ctx |-> NewCtx, deadline |-> Deadline(0),
     pc |-> [o \in Operations |-> "idle"],
     wake |-> [o \in Operations |-> 0],
     report |-> [o \in Operations |-> "none"], printed |-> FALSE]

demos ==
    <<raceDemo, mutexDemo, onceDemo, rwDemo, atomicDemo, chanStopDemo,
      ctxStopDemo, goDemo, errChDemo, initChanDemo, timeoutDemo>>

VARIABLES
    numUrls,    \* len(urls)
    mainPc,     \* position of errGroup(): "loop", "wait", "waited", "done"
    submitted,  \* number of group.Go calls made so far
    pc,         \* task -> "idle","check","request","report","exit","finished"
    result,     \* task -> the error its function returned (Nil before that)
    group,      \* errgroup.Group: [wg, errOnce, err]
    parent,     \* the context of context.WithCancel (line 194)
    ctx,        \* the context of errgroup.WithContext (line 199)
    arrivals,   \* tasks in the order they reached errOnce.Do with an error
    waitErr,    \* the value group.Wait returned
    ret         \* the value errGroup() returned

egVars == <<numUrls, mainPc, submitted, pc, result, group, parent, ctx,
            arrivals, waitErr, ret>>

vars == <<egVars, demos>>

\* State at line 208, before the first iteration of the range loop, for a
\* urls slice of n elements.
EgStart(n) ==
    /\ numUrls = n
    /\ mainPc = "loop"
    /\ submitted = 0
    /\ pc = [i \in Tasks |-> "idle"]
    /\ result = [i \in Tasks |-> Nil]
    /\ group = [wg |-> 0, errOnce |-> FALSE, err |-> Nil]
    /\ parent = NewCtx
    /\ ctx = NewCtx
    /\ arrivals = <<>>
    /\ waitErr = Nil
    /\ ret = Nil

\* Every demo but the goroutine programs at the entry of its function.
RestStart ==
    /\ raceDemo = RaceStart
    /\ mutexDemo = MutexStart
    /\ onceDemo = OnceStart
    /\ rwDemo = RWStart
    /\ atomicDemo = AtomicStart
    /\ chanStopDemo = ChanStopStart
    /\ ctxStopDemo = CtxStopStart
    /\ errChDemo = ErrChStart
    /\ initChanDemo = InitChanStart
    /\ timeoutDemo = TimeoutStart

\* Every other demo at the entry of its function.
DemosStart ==
    /\ RestStart
    /\ goDemo = GoStart("full")

Init ==
    /\ \E n \in 0..MaxUrls : EgStart(n)
    /\ DemosStart

\* Start of a run of one of the other demos: errGroup has no URL to fetch.
InitDemos ==
    /\ EgStart(0)
    /\ DemosStart

\* One iteration of "for _, url := range urls": group.Go(func() error {...})
GroupGo ==
    /\ mainPc = "loop"
    /\ submitted < numUrls
    /\ submitted' = submitted + 1
    /\ group' = WgAdd(group)
    /\ pc' = [pc EXCEPT ![submitted + 1] = "check"]
    /\ UNCHANGED <<numUrls, mainPc, result, parent, ctx, arrivals, waitErr, ret>>
    /\ UNCHANGED demos

\* The loop is over: group.Wait() is called and blocks in wg.Wait().
GroupWaitCall ==
    /\ mainPc = "loop"
    /\ submitted = numUrls
    /\ mainPc' = "wait"
    /\ UNCHANGED <<numUrls, submitted, pc, result, group, parent, ctx,
                   arrivals, waitErr, ret>>
    /\ UNCHANGED demos

\* wg.Wait() returns; Wait cancels the group's context and returns g.err.
GroupWaitReturn ==
    /\ mainPc = "wait"
    /\ WgWaitReady(group)
    /\ ctx' = Cancel(ctx)
    /\ waitErr' = GroupWaitResult(group, ctx')
    /\ mainPc' = "waited"
    /\ UNCHANGED <<numUrls, submitted, pc, result, group, parent, arrivals, ret>>
    /\ UNCHANGED demos

\* Lines 233-238 and the deferred cancel() of line 195: the parent context
\* is cancelled, which cancels the derived context as well.
ErrGroupReturn ==
    /\ mainPc = "waited"
    /\ ret' = IF waitErr # Nil THEN WrapErr(waitErr) ELSE Nil
    /\ parent' = Cancel(parent)
    /\ ctx' = Cancel(ctx)
    /\ mainPc' = "done"
    /\ UNCHANGED <<numUrls, submitted, pc, result, group, arrivals, waitErr>>
    /\ UNCHANGED demos

\* select { case <-ctx.Done(): return ctx.Err()  default: ... }
TaskCheck(i) ==
    /\ pc[i] = "check"
    /\ IF ctx.done
       THEN /\ result' = [result EXCEPT ![i] = CtxErr(ctx)]
            /\ pc' = [pc EXCEPT ![i] = "report"]
       ELSE /\ pc' = [pc EXCEPT ![i] = "request"]
            /\ UNCHANGED result
    /\ UNCHANGED <<numUrls, mainPc, submitted, group, parent, ctx, arrivals,
                   waitErr, ret>>
    /\ UNCHANGED demos

\* The default branch: http.Get(url) and the return of its outcome.
TaskRequest(i) ==
    /\ pc[i] = "request"
    /\ \E r \in HttpGet(i, ctx) : result' = [result EXCEPT ![i] = r]
    /\ pc' = [pc EXCEPT ![i] = "report"]
    /\ UNCHANGED <<numUrls, mainPc, submitted, group, parent, ctx, arrivals,
                   waitErr, ret>>
    /\ UNCHANGED demos

\* f() has returned: if err != nil { errOnce.Do(...) }
TaskReport(i) ==
    /\ pc[i] = "report"
    /\ LET r == GoWrapper(group, ctx, result[i])
       IN  /\ group' = r.group
           /\ ctx' = r.ctx
    /\ arrivals' = IF result[i] # Nil THEN Append(arrivals, i) ELSE arrivals
    /\ pc' = [pc EXCEPT ![i] = "exit"]
    /\ UNCHANGED <<numUrls, mainPc, submitted, result, parent, waitErr, ret>>
    /\ UNCHANGED demos

\* The deferred wg.Done() of the goroutine.
TaskDone(i) ==
    /\ pc[i] = "exit"
    /\ group' = WgDone(group)
    /\ pc' = [pc EXCEPT ![i] = "finished"]
    /\ UNCHANGED <<numUrls, mainPc, submitted, result, parent, ctx, arrivals,
                   waitErr, ret>>
    /\ UNCHANGED demos

Next ==
    \/ GroupGo
    \/ GroupWaitCall
    \/ GroupWaitReturn
    \/ ErrGroupReturn
    \/ \E i \in Tasks : TaskCheck(i)
    \/ \E i \in Tasks : TaskRequest(i)
    \/ \E i \in Tasks : TaskReport(i)
    \/ \E i \in Tasks : TaskDone(i)

Spec == Init /\ [][Next]_vars

\* The Go scheduler runs every runnable goroutine eventually.
FairSpec ==
    /\ Spec
    /\ WF_vars(GroupGo)
    /\ WF_vars(GroupWaitCall)
    /\ WF_vars(GroupWaitReturn)
    /\ WF_vars(ErrGroupReturn)
    /\ \A i \in Tasks : WF_vars(TaskCheck(i))
    /\ \A i \in Tasks : WF_vars(TaskRequest(i))
    /\ \A i \in Tasks : WF_vars(TaskReport(i))
    /\ \A i \in Tasks : WF_vars(TaskDone(i))

----------------------------------------------------------------------------
(* Derived notions.                                                         *)

Submitted == 1..numUrls

\* group.Wait has returned.
Joined == mainPc \in {"waited", "done"}

\* Number of goroutines that have called wg.Done.
CompletionCount == Cardinality({i \in Tasks : pc[i] = "finished"})

\* Tasks whose function has returned a non-nil error.
Failed == {i \in Tasks : result[i] # Nil}

TypeOK ==
    /\ numUrls \in 0..MaxUrls
    /\ mainPc \in {"loop", "wait", "waited", "done"}
    /\ submitted \in 0..numUrls
    /\ pc \in [Tasks -> {"idle", "check", "request", "report", "exit", "finished"}]
    /\ \A i \in Tasks : result[i] \in {Nil, Canceled, FetchErr(i)}
    /\ group.wg \in 0..MaxUrls
    /\ group.errOnce \in BOOLEAN
    /\ ctx.done \in BOOLEAN
    /\ parent.done \in BOOLEAN

----------------------------------------------------------------------------------------------------------------------------------------
(* syncMutex, lines 39-47: NumIncr goroutines run counter1++ with no lock.  *)
(* counter1++ is a load followed by a store; time.Sleep synchronises with   *)
(* nothing, so main's read of counter1 is ordered with none of them.        *)

exceptRace ==
    <<egVars, mutexDemo, onceDemo, rwDemo, atomicDemo, chanStopDemo,
      ctxStopDemo, goDemo, errChDemo, initChanDemo, timeoutDemo>>

\* Mutant of Incr: the increment adds two.
IncrTwo(v) == v + 2

\* The value x++ stores for a loaded value v.
Incr(v) == v + 1

\* for i := 0; i < 1000; i++ { go func() { counter1++ }() }
RaceGo ==
    /\ raceDemo.main = "loop"
    /\ raceDemo.spawned < NumIncr
    /\ raceDemo' = [raceDemo EXCEPT !.spawned = @ + 1,
                                    !.pc[raceDemo.spawned + 1] = "read"]
    /\ UNCHANGED exceptRace

\* The loop is over: time.Sleep(2 * time.Second)
RaceSleep ==
    /\ raceDemo.main = "loop"
    /\ raceDemo.spawned = NumIncr
    /\ raceDemo' = [raceDemo EXCEPT !.main = "sleep"]
    /\ UNCHANGED exceptRace

\* counter1++, the load
RaceRead(i) ==
    /\ raceDemo.pc[i] = "read"
    /\ raceDemo' = [raceDemo EXCEPT !.tmp[i] = raceDemo.counter1,
                                    !.pc[i] = "write"]
    /\ UNCHANGED exceptRace

\* counter1++, the store
RaceWrite(i) ==
    /\ raceDemo.pc[i] = "write"
    /\ raceDemo' = [raceDemo EXCEPT !.counter1 = Incr(raceDemo.tmp[i]),
                                    !.pc[i] = "done"]
    /\ UNCHANGED exceptRace

\* fmt.Printf("without sync counter1: %d\n", counter1)
RacePrint ==
    /\ raceDemo.main = "sleep"
    /\ raceDemo' = [raceDemo EXCEPT !.printed = raceDemo.counter1,
                                    !.main = "printed"]
    /\ UNCHANGED exceptRace

NextRace ==
    \/ RaceGo
    \/ RaceSleep
    \/ \E i \in Incrs : RaceRead(i)
    \/ \E i \in Incrs : RaceWrite(i)
    \/ RacePrint

SpecRace == InitDemos /\ [][NextRace]_vars

----------------------------------------------------------------------------
(* syncMutex, lines 49-65: NumIncr goroutines run                           *)
(* mu.Lock(); counter2++; mu.Unlock() and wg.Done(); main waits on wg.      *)

exceptMutex ==
    <<egVars, raceDemo, onceDemo, rwDemo, atomicDemo, chanStopDemo,
      ctxStopDemo, goDemo, errChDemo, initChanDemo, timeoutDemo>>

\* Mutant of MuFree: Lock does not wait for the holder.
MuFreeAlways(mu) == TRUE

\* mu.Lock() can take the mutex: nobody holds it.
MuFree(mu) == mu = 0

\* wg.Add(1); go func() {...}()
MutexGo ==
    /\ mutexDemo.main = "loop"
    /\ mutexDemo.spawned < NumIncr
    /\ mutexDemo' = [WgAdd(mutexDemo) EXCEPT !.spawned = @ + 1,
                                             !.pc[mutexDemo.spawned + 1] = "lock"]
    /\ UNCHANGED exceptMutex

\* The loop is over: wg.Wait() is called.
MutexWaitCall ==
    /\ mutexDemo.main = "loop"
    /\ mutexDemo.spawned = NumIncr
    /\ mutexDemo' = [mutexDemo EXCEPT !.main = "wait"]
    /\ UNCHANGED exceptMutex

\* mu.Lock()
MutexLock(i) ==
    /\ mutexDemo.pc[i] = "lock"
    /\ MuFree(mutexDemo.mu)
    /\ mutexDemo' = [mutexDemo EXCEPT !.mu = i, !.pc[i] = "read"]
    /\ UNCHANGED exceptMutex

\* counter2++, the load
MutexRead(i) ==
    /\ mutexDemo.pc[i] = "read"
    /\ mutexDemo' = [mutexDemo EXCEPT !.tmp[i] = mutexDemo.counter2,
                                      !.pc[i] = "write"]
    /\ UNCHANGED exceptMutex

\* counter2++, the store
MutexWrite(i) ==
    /\ mutexDemo.pc[i] = "write"
    /\ mutexDemo' = [mutexDemo EXCEPT !.counter2 = Incr(mutexDemo.tmp[i]),
                                      !.pc[i] = "unlock"]
    /\ UNCHANGED exceptMutex

\* mu.Unlock()
MutexUnlock(i) ==
    /\ mutexDemo.pc[i] = "unlock"
    /\ mutexDemo' = [mutexDemo EXCEPT !.mu = 0, !.pc[i] = "exit"]
    /\ UNCHANGED exceptMutex

\* The deferred wg.Done()
MutexDone(i) ==
    /\ mutexDemo.pc[i] = "exit"
    /\ mutexDemo' = [WgDone(mutexDemo) EXCEPT !.pc[i] = "finished"]
    /\ UNCHANGED exceptMutex

\* wg.Wait() returns and counter2 is printed.
MutexWaitReturn ==
    /\ mutexDemo.main = "wait"
    /\ WgWaitReady(mutexDemo)
    /\ mutexDemo' = [mutexDemo EXCEPT !.printed = mutexDemo.counter2,
                                      !.main = "printed"]
    /\ UNCHANGED exceptMutex

NextMutex ==
    \/ MutexGo
    \/ MutexWaitCall
    \/ \E i \in Incrs : MutexLock(i)
    \/ \E i \in Incrs : MutexRead(i)
    \/ \E i \in Incrs : MutexWrite(i)
    \/ \E i \in Incrs : MutexUnlock(i)
    \/ \E i \in Incrs : MutexDone(i)
    \/ MutexWaitReturn

SpecMutex == InitDemos /\ [][NextMutex]_vars

----------------------------------------------------------------------------
(* syncOnce: NumOnce goroutines call once.Do(expensiveOperation).           *)
(* once.Do(f) is                                                            *)
(*     if done == 0 { m.Lock(); defer m.Unlock()                            *)
(*                    if done == 0 { defer store(done, 1); f() } }          *)

exceptOnce ==
    <<egVars, raceDemo, mutexDemo, rwDemo, atomicDemo, chanStopDemo,
      ctxStopDemo, goDemo, errChDemo, initChanDemo, timeoutDemo>>

\* Mutant of OnceBegin: done is stored before f has run.
OnceBeginStoresDone(o) == [o EXCEPT !.runs = @ + 1, !.done = TRUE]

\* expensiveOperation starts ("Performing expensive operation...").
OnceBegin(o) == [o EXCEPT !.runs = @ + 1]

\* wg.Add(1); go func(id int) {...}(i)
OnceGo ==
    /\ onceDemo.main = "loop"
    /\ onceDemo.spawned < NumOnce
    /\ onceDemo' = [WgAdd(onceDemo) EXCEPT !.spawned = @ + 1,
                                           !.pc[onceDemo.spawned + 1] = "do"]
    /\ UNCHANGED exceptOnce

\* The loop is over: wg.Wait() is called.
OnceWaitCall ==
    /\ onceDemo.main = "loop"
    /\ onceDemo.spawned = NumOnce
    /\ onceDemo' = [onceDemo EXCEPT !.main = "wait"]
    /\ UNCHANGED exceptOnce

\* "is trying to execute" and the fast path of once.Do: the load of done.
OnceFast(i) ==
    /\ onceDemo.pc[i] = "do"
    /\ onceDemo' = [onceDemo EXCEPT
                      !.pc[i] = IF onceDemo.done THEN "after" ELSE "slow"]
    /\ UNCHANGED exceptOnce

\* doSlow: m.Lock()
OnceLock(i) ==
    /\ onceDemo.pc[i] = "slow"
    /\ MuFree(onceDemo.m)
    /\ onceDemo' = [onceDemo EXCEPT !.m = i, !.pc[i] = "locked"]
    /\ UNCHANGED exceptOnce

\* doSlow: the second load of done; f starts when it is still 0.
OnceCheck(i) ==
    /\ onceDemo.pc[i] = "locked"
    /\ IF onceDemo.done
       THEN onceDemo' = [onceDemo EXCEPT !.pc[i] = "release"]
       ELSE onceDemo' = [OnceBegin(onceDemo) EXCEPT !.pc[i] = "body"]
    /\ UNCHANGED exceptOnce

\* expensiveOperation returns ("Expensive operation completed.").
OnceBody(i) ==
    /\ onceDemo.pc[i] = "body"
    /\ onceDemo' = [onceDemo EXCEPT !.completed = @ + 1, !.pc[i] = "store"]
    /\ UNCHANGED exceptOnce

\* The deferred store of done.
OnceStore(i) ==
    /\ onceDemo.pc[i] = "store"
    /\ onceDemo' = [onceDemo EXCEPT !.done = TRUE, !.pc[i] = "release"]
    /\ UNCHANGED exceptOnce

\* The deferred m.Unlock(); once.Do returns.
OnceUnlock(i) ==
    /\ onceDemo.pc[i] = "release"
    /\ onceDemo' = [onceDemo EXCEPT !.m = 0, !.pc[i] = "after"]
    /\ UNCHANGED exceptOnce

\* fmt.Printf("Goroutine %d has finished\n", id)
OnceFinished(i) ==
    /\ onceDemo.pc[i] = "after"
    /\ onceDemo' = [onceDemo EXCEPT !.pc[i] = "exit"]
    /\ UNCHANGED exceptOnce

\* The deferred wg.Done()
OnceDone(i) ==
    /\ onceDemo.pc[i] = "exit"
    /\ onceDemo' = [WgDone(onceDemo) EXCEPT !.pc[i] = "finished"]
    /\ UNCHANGED exceptOnce

\* wg.Wait() returns: "All goroutines have finished execution"
OnceWaitReturn ==
    /\ onceDemo.main = "wait"
    /\ WgWaitReady(onceDemo)
    /\ onceDemo' = [onceDemo EXCEPT !.main = "printed"]
    /\ UNCHANGED exceptOnce

NextOnce ==
    \/ OnceGo
    \/ OnceWaitCall
    \/ \E i \in Callers : OnceFast(i)
    \/ \E i \in Callers : OnceLock(i)
    \/ \E i \in Callers : OnceCheck(i)
    \/ \E i \in Callers : OnceBody(i)
    \/ \E i \in Callers : OnceStore(i)
    \/ \E i \in Callers : OnceUnlock(i)
    \/ \E i \in Callers : OnceFinished(i)
    \/ \E i \in Callers : OnceDone(i)
    \/ OnceWaitReturn

SpecOnce == InitDemos /\ [][NextOnce]_vars

----------------------------------------------------------------------------
(* syncRWMutex, lines 83-105: per iteration a writer                        *)
(*     mu.Lock(); safeCounter++; Printf(safeCounter); mu.Unlock()           *)
(* and a reader                                                             *)
(*     mu.RLock(); Printf(safeCounter); mu.RUnlock()                        *)
(* mu.Lock first excludes the other writers and new readers, then waits for *)
(* the read locks held to be released.                                      *)

exceptRW ==
    <<egVars, raceDemo, mutexDemo, onceDemo, atomicDemo, chanStopDemo,
      ctxStopDemo, goDemo, errChDemo, initChanDemo, timeoutDemo>>

\* Mutant of RLockFree: RLock ignores the writer.
RLockFreeAlways(d) == TRUE

\* mu.RLock() can proceed: no writer holds or waits for the lock.
RLockFree(d) == d.w = 0

\* Mutant of ReadersGone: Lock does not wait for the readers.
ReadersGoneAlways(d) == TRUE

\* mu.Lock() can proceed: every read lock is released.
ReadersGone(d) == d.readers = 0

\* wg.Add(2); go func() {writer}(); go func() {reader}()
RWGo ==
    /\ rwDemo.main = "loop"
    /\ rwDemo.spawned < NumPairs
    /\ rwDemo' = [rwDemo EXCEPT !.wg = @ + 2,
                                !.spawned = @ + 1,
                                !.wpc[rwDemo.spawned + 1] = "lock",
                                !.rpc[rwDemo.spawned + 1] = "rlock"]
    /\ UNCHANGED exceptRW

\* The loop is over: wg.Wait() is called.
RWWaitCall ==
    /\ rwDemo.main = "loop"
    /\ rwDemo.spawned = NumPairs
    /\ rwDemo' = [rwDemo EXCEPT !.main = "wait"]
    /\ UNCHANGED exceptRW

\* mu.Lock(), first part: take the writer slot.
WriterLock(i) ==
    /\ rwDemo.wpc[i] = "lock"
    /\ MuFree(rwDemo.w)
    /\ rwDemo' = [rwDemo EXCEPT !.w = i, !.wpc[i] = "drain"]
    /\ UNCHANGED exceptRW

\* mu.Lock(), second part: the active readers have left.
WriterAcquire(i) ==
    /\ rwDemo.wpc[i] = "drain"
    /\ ReadersGone(rwDemo)
    /\ rwDemo' = [rwDemo EXCEPT !.wpc[i] = "read"]
    /\ UNCHANGED exceptRW

\* safeCounter++, the load
WriterRead(i) ==
    /\ rwDemo.wpc[i] = "read"
    /\ rwDemo' = [rwDemo EXCEPT !.tmp[i] = rwDemo.safeCounter,
                                !.wpc[i] = "write"]
    /\ UNCHANGED exceptRW

\* safeCounter++, the store
WriterWrite(i) ==
    /\ rwDemo.wpc[i] = "write"
    /\ rwDemo' = [rwDemo EXCEPT !.safeCounter = Incr(rwDemo.tmp[i]),
                                !.wpc[i] = "print"]
    /\ UNCHANGED exceptRW

\* fmt.Printf("Write: %d\n", safeCounter)
WriterPrint(i) ==
    /\ rwDemo.wpc[i] = "print"
    /\ rwDemo' = [rwDemo EXCEPT !.writes = Append(@, rwDemo.safeCounter),
                                !.wpc[i] = "unlock"]
    /\ UNCHANGED exceptRW

\* mu.Unlock()
WriterUnlock(i) ==
    /\ rwDemo.wpc[i] = "unlock"
    /\ rwDemo' = [rwDemo EXCEPT !.w = 0, !.wpc[i] = "exit"]
    /\ UNCHANGED exceptRW

\* The writer's deferred wg.Done()
WriterDone(i) ==
    /\ rwDemo.wpc[i] = "exit"
    /\ rwDemo' = [WgDone(rwDemo) EXCEPT !.wpc[i] = "finished"]
    /\ UNCHANGED exceptRW

\* mu.RLock()
ReaderRLock(i) ==
    /\ rwDemo.rpc[i] = "rlock"
    /\ RLockFree(rwDemo)
    /\ rwDemo' = [rwDemo EXCEPT !.readers = @ + 1, !.rpc[i] = "print"]
    /\ UNCHANGED exceptRW

\* fmt.Printf("Read: %d\n", safeCounter)
ReaderPrint(i) ==
    /\ rwDemo.rpc[i] = "print"
    /\ rwDemo' = [rwDemo EXCEPT !.val[i] = rwDemo.safeCounter,
                                !.rpc[i] = "runlock"]
    /\ UNCHANGED exceptRW

\* mu.RUnlock()
ReaderRUnlock(i) ==
    /\ rwDemo.rpc[i] = "runlock"
    /\ rwDemo' = [rwDemo EXCEPT !.readers = @ - 1, !.rpc[i] = "exit"]
    /\ UNCHANGED exceptRW

\* The reader's deferred wg.Done()
ReaderDone(i) ==
    /\ rwDemo.rpc[i] = "exit"
    /\ rwDemo' = [WgDone(rwDemo) EXCEPT !.rpc[i] = "finished"]
    /\ UNCHANGED exceptRW

\* wg.Wait() returns and syncRWMutex returns.
RWWaitReturn ==
    /\ rwDemo.main = "wait"
    /\ WgWaitReady(rwDemo)
    /\ rwDemo' = [rwDemo EXCEPT !.main = "returned"]
    /\ UNCHANGED exceptRW

NextRW ==
    \/ RWGo
    \/ RWWaitCall
    \/ \E i \in Pairs : WriterLock(i)
    \/ \E i \in Pairs : WriterAcquire(i)
    \/ \E i \in Pairs : WriterRead(i)
    \/ \E i \in Pairs : WriterWrite(i)
    \/ \E i \in Pairs : WriterPrint(i)
    \/ \E i \in Pairs : WriterUnlock(i)
    \/ \E i \in Pairs : WriterDone(i)
    \/ \E i \in Pairs : ReaderRLock(i)
    \/ \E i \in Pairs : ReaderPrint(i)
    \/ \E i \in Pairs : ReaderRUnlock(i)
    \/ \E i \in Pairs : ReaderDone(i)
    \/ RWWaitReturn

SpecRW == InitDemos /\ [][NextRW]_vars

----------------------------------------------------------------------------
(* syncAtomic: NumVisitors goroutines add 1 to visitorCount, sleep, and add *)
(* -1; a printer goroutine loads and prints visitorCount until it receives  *)
(* on the unbuffered channel done.                                          *)

exceptAtomic ==
    <<egVars, raceDemo, mutexDemo, onceDemo, rwDemo, chanStopDemo,
      ctxStopDemo, goDemo, errChDemo, initChanDemo, timeoutDemo>>

\* Mutant of AtomicAddInt32: the delta is stored instead of added.
AtomicStoreInt32(v, delta) == delta

\* atomic.AddInt32(&v, delta): one indivisible step.  The count stays far
\* from the ends of int32, so the addition never wraps.
AtomicAddInt32(v, delta) == v + delta

\* wg.Add(1); go func() {...}()
AtomicGo ==
    /\ atomicDemo.main = "loop"
    /\ atomicDemo.spawned < NumVisitors
    /\ atomicDemo' = [WgAdd(atomicDemo) EXCEPT
                        !.spawned = @ + 1,
                        !.pc[atomicDemo.spawned + 1] = "enter"]
    /\ UNCHANGED exceptAtomic

\* The loop is over: wg.Wait() is called.
AtomicWaitCall ==
    /\ atomicDemo.main = "loop"
    /\ atomicDemo.spawned = NumVisitors
    /\ atomicDemo' = [atomicDemo EXCEPT !.main = "wait"]
    /\ UNCHANGED exceptAtomic

\* atomic.AddInt32(&visitorCount, 1), then the visit (time.Sleep)
VisitorEnter(i) ==
    /\ atomicDemo.pc[i] = "enter"
    /\ atomicDemo' = [atomicDemo EXCEPT
                        !.visitorCount = AtomicAddInt32(@, 1),
                        !.pc[i] = "visit"]
    /\ UNCHANGED exceptAtomic

\* atomic.AddInt32(&visitorCount, -1)
VisitorLeave(i) ==
    /\ atomicDemo.pc[i] = "visit"
    /\ atomicDemo' = [atomicDemo EXCEPT
                        !.visitorCount = AtomicAddInt32(@, -1),
                        !.pc[i] = "exit"]
    /\ UNCHANGED exceptAtomic

\* The deferred wg.Done()
VisitorDone(i) ==
    /\ atomicDemo.pc[i] = "exit"
    /\ atomicDemo' = [WgDone(atomicDemo) EXCEPT !.pc[i] = "finished"]
    /\ UNCHANGED exceptAtomic

\* The printer's default branch: nothing to receive on done, so it prints
\* atomic.LoadInt32(&visitorCount) and sleeps.
PrinterLoad ==
    /\ atomicDemo.printer = "select"
    /\ atomicDemo.main # "send"
    /\ atomicDemo' = [atomicDemo EXCEPT !.loaded = atomicDemo.visitorCount]
    /\ UNCHANGED exceptAtomic

\* wg.Wait() returns; main blocks in done <- true.
AtomicWaitReturn ==
    /\ atomicDemo.main = "wait"
    /\ WgWaitReady(atomicDemo)
    /\ atomicDemo' = [atomicDemo EXCEPT !.main = "send"]
    /\ UNCHANGED exceptAtomic

\* The printer receives from done and returns; main's send completes.
PrinterStop ==
    /\ atomicDemo.printer = "select"
    /\ atomicDemo.main = "send"
    /\ atomicDemo' = [atomicDemo EXCEPT !.printer = "returned", !.main = "sent"]
    /\ UNCHANGED exceptAtomic

\* fmt.Printf("Final visitor count: %d\n", visitorCount)
AtomicPrintFinal ==
    /\ atomicDemo.main = "sent"
    /\ atomicDemo' = [atomicDemo EXCEPT !.final = atomicDemo.visitorCount,
                                        !.main = "printed"]
    /\ UNCHANGED exceptAtomic

NextAtomic ==
    \/ AtomicGo
    \/ AtomicWaitCall
    \/ \E i \in Visitors : VisitorEnter(i)
    \/ \E i \in Visitors : VisitorLeave(i)
    \/ \E i \in Visitors : VisitorDone(i)
    \/ PrinterLoad
    \/ AtomicWaitReturn
    \/ PrinterStop
    \/ AtomicPrintFinal

SpecAtomic == InitDemos /\ [][NextAtomic]_vars

----------------------------------------------------------------------------
(* useChanStopGoroutine: a goroutine loops over                             *)
(*     select { case <-stop: Println("Got the stop signal, stop...")        *)
(*              default: Printf("Start Loop%d\n", i); i += 1 }              *)
(* and main sends one value on the unbuffered channel stop.                 *)

exceptChanStop ==
    <<egVars, raceDemo, mutexDemo, onceDemo, rwDemo, atomicDemo,
      ctxStopDemo, goDemo, errChDemo, initChanDemo, timeoutDemo>>

\* main reaches "stop <- struct{}{}" and blocks until the value is received.
StopMainSend ==
    /\ chanStopDemo.main = "running"
    /\ chanStopDemo' = [chanStopDemo EXCEPT !.main = "send"]
    /\ UNCHANGED exceptChanStop

\* The default branch: no sender is waiting on stop.
StopLoopDefault ==
    /\ chanStopDemo.loop = "select"
    /\ chanStopDemo.main \in {"running", "returned"}
    /\ chanStopDemo.i < MaxLoops
    /\ chanStopDemo' = [chanStopDemo EXCEPT
                          !.i = @ + 1,
                          !.afterStop = IF chanStopDemo.gotStop THEN @ + 1 ELSE @]
    /\ UNCHANGED exceptChanStop

\* case <-stop: the value is received and the message printed; the branch
\* ends there and the for loop continues.  main's send completes and
\* useChanStopGoroutine returns.
StopReceive ==
    /\ chanStopDemo.loop = "select"
    /\ chanStopDemo.main = "send"
    /\ chanStopDemo' = [chanStopDemo EXCEPT !.gotStop = TRUE,
                                            !.main = "returned"]
    /\ UNCHANGED exceptChanStop

\* main runs its last call and returns: the process and the goroutine end.
StopProcessExit ==
    /\ chanStopDemo.main = "returned"
    /\ chanStopDemo' = [chanStopDemo EXCEPT !.main = "exited", !.loop = "killed"]
    /\ UNCHANGED exceptChanStop

NextChanStop ==
    \/ StopMainSend
    \/ StopLoopDefault
    \/ StopReceive
    \/ StopProcessExit

SpecChanStop == InitDemos /\ [][NextChanStop]_vars

----------------------------------------------------------------------------
(* useContentStopGoroutine: a goroutine loops over                          *)
(*     select { case <-ctx.Done(): Println("Got the stop signal. ...")      *)
(*                                 return                                   *)
(*              default: }                                                  *)
(* and main calls cancel().  It is the last call of main.                   *)

exceptCtxStop ==
    <<egVars, raceDemo, mutexDemo, onceDemo, rwDemo, atomicDemo,
      chanStopDemo, goDemo, errChDemo, initChanDemo, timeoutDemo>>

\* Mutant of ShutdownBranch: the branch has no return, the loop goes on.
ShutdownNoReturn(d) == [d EXCEPT !.prints = @ + 1, !.loop = "select"]

\* fmt.Println("Got the stop signal. Shutting down..."); return
ShutdownBranch(d) == [d EXCEPT !.prints = @ + 1, !.loop = "returned"]

\* go func(ctx context.Context) {...}(ctx)
CtxStopGo ==
    /\ ctxStopDemo.main = "go"
    /\ ctxStopDemo' = [ctxStopDemo EXCEPT !.main = "cancel", !.loop = "select"]
    /\ UNCHANGED exceptCtxStop

\* The default branch: select takes it only while ctx.Done() is not closed.
CtxStopDefault ==
    /\ ctxStopDemo.loop = "select"
    /\ ~ctxStopDemo.ctx.done
    /\ ctxStopDemo.iters < MaxSpins
    /\ ctxStopDemo' = [ctxStopDemo EXCEPT !.iters = @ + 1]
    /\ UNCHANGED exceptCtxStop

\* cancel(); useContentStopGoroutine returns.
CtxStopCancel ==
    /\ ctxStopDemo.main = "cancel"
    /\ ctxStopDemo' = [ctxStopDemo EXCEPT !.ctx = Cancel(@),
                                          !.main = "returned"]
    /\ UNCHANGED exceptCtxStop

\* case <-ctx.Done(): the receive on the closed channel succeeds.  The guard
\* on prints caps the counter.
CtxStopObserve ==
    /\ ctxStopDemo.loop = "select"
    /\ ctxStopDemo.ctx.done
    /\ ctxStopDemo.prints <= MaxSpins
    /\ ctxStopDemo' = [ctxStopDemo EXCEPT !.loop = "shutdown",
                                          !.observed = TRUE]
    /\ UNCHANGED exceptCtxStop

\* The body of the branch.
CtxStopShutdown ==
    /\ ctxStopDemo.loop = "shutdown"
    /\ ctxStopDemo' = ShutdownBranch(ctxStopDemo)
    /\ UNCHANGED exceptCtxStop

\* main returns: the process ends, and the goroutine with it if it has not
\* returned yet.
CtxStopProcessExit ==
    /\ ctxStopDemo.main = "returned"
    /\ ctxStopDemo' = [ctxStopDemo EXCEPT
                         !.main = "exited",
                         !.loop = IF @ = "returned" THEN @ ELSE "killed"]
    /\ UNCHANGED exceptCtxStop

NextCtxStop ==
    \/ CtxStopGo
    \/ CtxStopDefault
    \/ CtxStopCancel
    \/ CtxStopObserve
    \/ CtxStopShutdown
    \/ CtxStopProcessExit

SpecCtxStop == InitDemos /\ [][NextCtxStop]_vars

\* The scheduler runs every goroutine that can take a step; nothing makes
\* main return within any given time.
FairCtxStop ==
    /\ SpecCtxStop
    /\ WF_vars(CtxStopGo)
    /\ WF_vars(CtxStopCancel)
    /\ WF_vars(CtxStopObserve)
    /\ WF_vars(CtxStopShutdown)

----------------------------------------------------------------------------
(* The goroutine programs: goroutineHello starts sayHello and does not wait *)
(* for it; safeGoroutine and anonymousFuncGoroutine start a goroutine and   *)
(* wait for its send on the channel done of capacity 1.                     *)

exceptGo ==
    <<egVars, raceDemo, mutexDemo, onceDemo, rwDemo, atomicDemo,
      chanStopDemo, ctxStopDemo, errChDemo, initChanDemo, timeoutDemo>>

\* A send on ch can proceed: the buffer has room.
ChanCanSend(ch) == Len(ch.buf) < ch.cap

\* ch <- v
ChanSend(ch, v) == [ch EXCEPT !.buf = Append(@, v), !.sent = @ + 1]

\* Mutant of ChanCanRecv: the receive does not wait for a value.
ChanCanRecvAlways(ch) == TRUE

\* A receive on ch can proceed: the buffer holds a value.
ChanCanRecv(ch) == Len(ch.buf) > 0

\* <-ch: the oldest value leaves the buffer.
ChanRecv(ch) ==
    [ch EXCEPT !.buf = SubSeq(@, 2, Len(@)), !.received = @ + 1]

\* Mutant of Alive: goroutines go on after main has returned.
AliveAlways(d) == TRUE

\* The process runs until main returns; the goroutines end with it.
Alive(d) == d.main # "exited"

\* fmt.Println(s)
Println(d, s) == [d EXCEPT !.out = Append(@, s)]

InitGo == EgStart(0) /\ RestStart /\ \E p \in Progs : goDemo = GoStart(p)

\* go sayHello()
GoHelloGo ==
    /\ goDemo.main = "goroutineHello"
    /\ goDemo' = [goDemo EXCEPT !.main = "printMain", !.hello = "ready"]
    /\ UNCHANGED exceptGo

\* sayHello: fmt.Println("hello")
SayHello ==
    /\ goDemo.hello = "ready"
    /\ Alive(goDemo)
    /\ goDemo' = [Println(goDemo, "hello") EXCEPT !.hello = "done"]
    /\ UNCHANGED exceptGo

\* fmt.Println("Main process"); in the version without the sleep
\* goroutineHello and main return next.
GoHelloPrint ==
    /\ goDemo.main = "printMain"
    /\ goDemo' = [Println(goDemo, "Main process") EXCEPT
                    !.main = IF goDemo.prog = "noWait" THEN "return"
                             ELSE "sleep"]
    /\ UNCHANGED exceptGo

\* time.Sleep(1 * time.Second) ends, whatever sayHello has done.
GoHelloSleep ==
    /\ goDemo.main = "sleep"
    /\ goDemo' = [goDemo EXCEPT !.main = "safeGoroutine"]
    /\ UNCHANGED exceptGo

\* done := make(chan bool, 1); go worker(done)
SafeGo ==
    /\ goDemo.main = "safeGoroutine"
    /\ goDemo' = [goDemo EXCEPT !.main = "recvDone", !.worker = "start"]
    /\ UNCHANGED exceptGo

\* worker: fmt.Println("worker starting...")
WorkerStart ==
    /\ goDemo.worker = "start"
    /\ Alive(goDemo)
    /\ goDemo' = [Println(goDemo, "worker starting...") EXCEPT
                    !.worker = "work"]
    /\ UNCHANGED exceptGo

\* worker: time.Sleep(time.Second)
WorkerSleep ==
    /\ goDemo.worker = "work"
    /\ Alive(goDemo)
    /\ goDemo' = [goDemo EXCEPT !.worker = "awake"]
    /\ UNCHANGED exceptGo

\* worker: fmt.Println("done.")
WorkerFinish ==
    /\ goDemo.worker = "awake"
    /\ Alive(goDemo)
    /\ goDemo' = [Println(goDemo, "done.") EXCEPT !.worker = "send"]
    /\ UNCHANGED exceptGo

\* worker: done <- true
WorkerSend ==
    /\ goDemo.worker = "send"
    /\ Alive(goDemo)
    /\ ChanCanSend(goDemo.done)
    /\ goDemo' = [goDemo EXCEPT !.done = ChanSend(@, TRUE),
                                !.worker = "exit"]
    /\ UNCHANGED exceptGo

\* safeGoroutine: <-done, then the function returns; it is the last call of
\* main in the version of part_000.
SafeRecv ==
    /\ goDemo.main = "recvDone"
    /\ ChanCanRecv(goDemo.done)
    /\ goDemo' = [goDemo EXCEPT
                    !.done = ChanRecv(@),
                    !.main = IF goDemo.prog = "safe" THEN "return"
                             ELSE "anonymousFuncGoroutine"]
    /\ UNCHANGED exceptGo

\* done := make(chan bool, 1); go func() {...}()
AnonGo ==
    /\ goDemo.main = "anonymousFuncGoroutine"
    /\ goDemo' = [goDemo EXCEPT !.main = "recvAnon", !.anon = "work"]
    /\ UNCHANGED exceptGo

\* time.Sleep(2 * time.Second)
AnonSleep ==
    /\ goDemo.anon = "work"
    /\ Alive(goDemo)
    /\ goDemo' = [goDemo EXCEPT !.anon = "awake"]
    /\ UNCHANGED exceptGo

\* fmt.Println("task done.")
AnonFinish ==
    /\ goDemo.anon = "awake"
    /\ Alive(goDemo)
    /\ goDemo' = [Println(goDemo, "task done.") EXCEPT !.anon = "send"]
    /\ UNCHANGED exceptGo

\* done <- true
AnonSend ==
    /\ goDemo.anon = "send"
    /\ Alive(goDemo)
    /\ ChanCanSend(goDemo.doneAnon)
    /\ goDemo' = [goDemo EXCEPT !.doneAnon = ChanSend(@, TRUE),
                                !.anon = "exit"]
    /\ UNCHANGED exceptGo

\* anonymousFuncGoroutine: <-done
AnonRecv ==
    /\ goDemo.main = "recvAnon"
    /\ ChanCanRecv(goDemo.doneAnon)
    /\ goDemo' = [goDemo EXCEPT !.doneAnon = ChanRecv(@),
                                !.main = "printAnon"]
    /\ UNCHANGED exceptGo

\* fmt.Println("The main goroutine receives the done signal ..."); main goes
\* on with useChanStopGoroutine and useContentStopGoroutine.
AnonPrint ==
    /\ goDemo.main = "printAnon"
    /\ goDemo' =
          [Println(goDemo, "The main goroutine receives the done signal and continues to execute.")
             EXCEPT !.main = "rest"]
    /\ UNCHANGED exceptGo

\* main returns and the program ends.
GoMainExit ==
    /\ goDemo.main = "return"
    /\ goDemo' = [goDemo EXCEPT !.main = "exited"]
    /\ UNCHANGED exceptGo

NextGo ==
    \/ GoHelloGo
    \/ SayHello
    \/ GoHelloPrint
    \/ GoHelloSleep
    \/ SafeGo
    \/ WorkerStart
    \/ WorkerSleep
    \/ WorkerFinish
    \/ WorkerSend
    \/ SafeRecv
    \/ AnonGo
    \/ AnonSleep
    \/ AnonFinish
    \/ AnonSend
    \/ AnonRecv
    \/ AnonPrint
    \/ GoMainExit

SpecGo == InitGo /\ [][NextGo]_vars

----------------------------------------------------------------------------
(* handleChannelError: five performTask goroutines each send one outcome on *)
(* errCh, of capacity 5; the loop of handleChannelError receives five.      *)

exceptErrCh ==
    <<egVars, raceDemo, mutexDemo, onceDemo, rwDemo, atomicDemo,
      chanStopDemo, ctxStopDemo, goDemo, initChanDemo, timeoutDemo>>

\* errors.New("task failed")
TaskFailed == [msg |-> "task failed", url |-> 0, wrapped |-> FALSE]

\* Mutant of TaskOutcome: the tasks with odd ids fail.
TaskOutcomeOdd(id) == IF id % 2 = 1 THEN TaskFailed ELSE Nil

\* What performTask(id, errCh) sends: an error for an even id, nil otherwise.
TaskOutcome(id) == IF id % 2 = 0 THEN TaskFailed ELSE Nil

\* for i := 0; i < tasks; i++ { go performTask(i, errCh) }
ErrChSpawn ==
    /\ errChDemo.main = "spawn"
    /\ errChDemo' = [errChDemo EXCEPT
                       !.pc[errChDemo.i] = "run",
                       !.i = @ + 1,
                       !.main = IF errChDemo.i + 1 = NumTasks THEN "collect"
                                ELSE "spawn"]
    /\ UNCHANGED exceptErrCh

\* performTask before its send: time.Sleep(2 * time.Second) for an even id,
\* the Printf for an odd one.
PerformTaskWork(id) ==
    /\ errChDemo.pc[id] = "run"
    /\ errChDemo' = [errChDemo EXCEPT !.pc[id] = "send"]
    /\ UNCHANGED exceptErrCh

\* errCh <- errors.New("task failed"), or errCh <- nil.  The id travels with
\* the value to tell the outcomes apart.
PerformTaskSend(id) ==
    /\ errChDemo.pc[id] = "send"
    /\ ChanCanSend(errChDemo.errCh)
    /\ errChDemo' = [errChDemo EXCEPT
                       !.errCh = ChanSend(@, [id |-> id,
                                              err |-> TaskOutcome(id)]),
                       !.pc[id] = "done"]
    /\ UNCHANGED exceptErrCh

\* err := <-errCh, and the Printf when err != nil.
ErrChCollect ==
    /\ errChDemo.main = "collect"
    /\ ChanCanRecv(errChDemo.errCh)
    /\ errChDemo' = [errChDemo EXCEPT
                       !.received = Append(@, Head(errChDemo.errCh.buf)),
                       !.errCh = ChanRecv(@),
                       !.main = IF Len(errChDemo.received) + 1 = NumTasks
                                THEN "print" ELSE "collect"]
    /\ UNCHANGED exceptErrCh

\* fmt.Println("finished processing all tasks")
ErrChFinish ==
    /\ errChDemo.main = "print"
    /\ errChDemo' = [errChDemo EXCEPT !.finished = TRUE, !.main = "returned"]
    /\ UNCHANGED exceptErrCh

NextErrCh ==
    \/ ErrChSpawn
    \/ \E id \in TaskIds : PerformTaskWork(id)
    \/ \E id \in TaskIds : PerformTaskSend(id)
    \/ ErrChCollect
    \/ ErrChFinish

SpecErrCh == InitDemos /\ [][NextErrCh]_vars

----------------------------------------------------------------------------
(* initChannel: main sends 3 and then 4 on the unbuffered channel ch, each  *)
(* to a goroutine that receives one value and prints it, closes ch, and     *)
(* passes 5 through chBuffered.  A send on an unbuffered channel hands the  *)
(* value over (ch holds it) and returns once a receiver has taken it.       *)

exceptInitChan ==
    <<egVars, raceDemo, mutexDemo, onceDemo, rwDemo, atomicDemo,
      chanStopDemo, ctxStopDemo, goDemo, errChDemo, timeoutDemo>>

\* Mutant of SendComplete: the send returns without a receiver.
SendCompleteAlways(d) == TRUE

\* The pending send on ch returns: a receiver has taken the value.
SendComplete(d) == d.ch = <<>>

\* go func() { value := <-ch; fmt.Println(value) }()
InitChanGo1 ==
    /\ initChanDemo.main = "go1"
    /\ initChanDemo' = [initChanDemo EXCEPT !.main = "send3",
                                            !.rpc[1] = "recv"]
    /\ UNCHANGED exceptInitChan

\* ch <- v begins: the value is offered to the receivers.  A send on a
\* closed channel panics.
InitChanOffer(v) ==
    /\ \/ v = 3 /\ initChanDemo.main = "send3"
       \/ v = 4 /\ initChanDemo.main = "send4"
    /\ initChanDemo' =
          IF initChanDemo.closed
          THEN [initChanDemo EXCEPT !.main = "panic", !.panicked = TRUE]
          ELSE [initChanDemo EXCEPT
                  !.ch = Append(@, v),
                  !.main = IF v = 3 THEN "sending3" ELSE "sending4"]
    /\ UNCHANGED exceptInitChan

\* <-ch in receiver r: it takes the offered value, or the zero value when
\* ch is closed and nothing is offered.
InitChanReceive(r) ==
    /\ initChanDemo.rpc[r] = "recv"
    /\ initChanDemo.ch # <<>> \/ initChanDemo.closed
    /\ initChanDemo' =
          IF initChanDemo.ch # <<>>
          THEN [initChanDemo EXCEPT !.value[r] = Head(initChanDemo.ch),
                                    !.ch = Tail(@),
                                    !.rpc[r] = "print"]
          ELSE [initChanDemo EXCEPT !.zero[r] = TRUE, !.rpc[r] = "print"]
    /\ UNCHANGED exceptInitChan

\* fmt.Println(value) in receiver r
InitChanPrint(r) ==
    /\ initChanDemo.rpc[r] = "print"
    /\ initChanDemo' = [initChanDemo EXCEPT
                          !.out = Append(@, initChanDemo.value[r]),
                          !.rpc[r] = "done"]
    /\ UNCHANGED exceptInitChan

\* ch <- 3, or ch <- 4, returns.
InitChanSent ==
    /\ initChanDemo.main \in {"sending3", "sending4"}
    /\ SendComplete(initChanDemo)
    /\ initChanDemo' = [initChanDemo EXCEPT
                          !.main = IF @ = "sending3" THEN "go2" ELSE "close"]
    /\ UNCHANGED exceptInitChan

\* go func() { fmt.Println(<-ch) }()
InitChanGo2 ==
    /\ initChanDemo.main = "go2"
    /\ initChanDemo' = [initChanDemo EXCEPT !.main = "send4",
                                            !.rpc[2] = "recv"]
    /\ UNCHANGED exceptInitChan

\* close(ch)
InitChanClose ==
    /\ initChanDemo.main = "close"
    /\ initChanDemo' = [initChanDemo EXCEPT !.closed = TRUE,
                                            !.main = "sendBuffered"]
    /\ UNCHANGED exceptInitChan

\* chBuffered <- 5
InitChanSendBuffered ==
    /\ initChanDemo.main = "sendBuffered"
    /\ ChanCanSend(initChanDemo.chBuffered)
    /\ initChanDemo' = [initChanDemo EXCEPT !.chBuffered = ChanSend(@, 5),
                                            !.main = "recvBuffered"]
    /\ UNCHANGED exceptInitChan

\* valueBuffered := <-chBuffered
InitChanRecvBuffered ==
    /\ initChanDemo.main = "recvBuffered"
    /\ ChanCanRecv(initChanDemo.chBuffered)
    /\ initChanDemo' = [initChanDemo EXCEPT
                          !.valueBuffered = Head(initChanDemo.chBuffered.buf),
                          !.chBuffered = ChanRecv(@),
                          !.main = "printBuffered"]
    /\ UNCHANGED exceptInitChan

\* fmt.Println(valueBuffered)
InitChanPrintBuffered ==
    /\ initChanDemo.main = "printBuffered"
    /\ initChanDemo' = [initChanDemo EXCEPT
                          !.out = Append(@, initChanDemo.valueBuffered),
                          !.main = "closeBuffered"]
    /\ UNCHANGED exceptInitChan

\* close(chBuffered); initChannel returns.
InitChanCloseBuffered ==
    /\ initChanDemo.main = "closeBuffered"
    /\ initChanDemo' = [initChanDemo EXCEPT !.closedBuffered = TRUE,
                                            !.main = "returned"]
    /\ UNCHANGED exceptInitChan

\* The statements of bufferedChannel after ch := make(chan int, 2).
BufferedStatements ==
    <<[op |-> "send", v |-> 1], [op |-> "send", v |-> 2],
      [op |-> "print", v |-> 0], [op |-> "print", v |-> 0],
      [op |-> "send", v |-> 3], [op |-> "print", v |-> 0],
      [op |-> "close", v |-> 0]>>

\* main, back from initChannel, runs the next statement of bufferedChannel:
\* ch <- v, fmt.Println(<-ch) or close(ch).  The receiver goroutines of
\* initChannel may still be printing.
BufferedChannelStep ==
    /\ initChanDemo.main = "returned"
    /\ initChanDemo.step < Len(BufferedStatements)
    /\ LET st == BufferedStatements[initChanDemo.step + 1]
           d == [initChanDemo EXCEPT !.step = @ + 1]
       IN  \/ /\ st.op = "send"
              /\ ChanCanSend(d.bufCh)
              /\ initChanDemo' = [d EXCEPT !.bufCh = ChanSend(@, st.v)]
           \/ /\ st.op = "print"
              /\ ChanCanRecv(d.bufCh)
              /\ initChanDemo' = [d EXCEPT !.out = Append(@, Head(d.bufCh.buf)),
                                           !.bufCh = ChanRecv(@)]
           \/ /\ st.op = "close"
              /\ initChanDemo' = [d EXCEPT !.bufClosed = TRUE]
    /\ UNCHANGED exceptInitChan

NextInitChan ==
    \/ InitChanGo1
    \/ \E v \in {3, 4} : InitChanOffer(v)
    \/ \E r \in Receivers : InitChanReceive(r)
    \/ \E r \in Receivers : InitChanPrint(r)
    \/ InitChanSent
    \/ InitChanGo2
    \/ InitChanClose
    \/ InitChanSendBuffered
    \/ InitChanRecvBuffered
    \/ InitChanPrintBuffered
    \/ InitChanCloseBuffered
    \/ BufferedChannelStep

SpecInitChan == InitDemos /\ [][NextInitChan]_vars

----------------------------------------------------------------------------
(* concurrentChannel: a context with a timeout of 1 second, operation1      *)
(* sleeping 1 second and operation2 sleeping 2 seconds before they look at  *)
(* ctx.Done(), and main waiting for ctx.Done().  Time is a clock counting   *)
(* seconds: the timer of the context fires when the clock shows its         *)
(* deadline, a Sleep ends when the clock shows its end or later.            *)

exceptTimeout ==
    <<egVars, raceDemo, mutexDemo, onceDemo, rwDemo, atomicDemo,
      chanStopDemo, ctxStopDemo, goDemo, errChDemo, initChanDemo>>

\* The seconds operation o sleeps: time.Sleep(1 * time.Second) in
\* operation1, time.Sleep(2 * time.Second) in operation2.
Work(o) == IF o = 1 THEN 1 ELSE 2

\* What the select of an operation prints for the context c.
SelectReport(c) == IF c.done THEN "canceled" ELSE "completed"

\* go operation1(ctx), then go operation2(ctx)
TimeoutGo ==
    /\ timeoutDemo.main \in {"go1", "go2"}
    /\ LET o == IF timeoutDemo.main = "go1" THEN 1 ELSE 2
       IN  timeoutDemo' = [timeoutDemo EXCEPT
                             !.pc[o] = "start",
                             !.main = IF o = 1 THEN "go2" ELSE "wait"]
    /\ UNCHANGED exceptTimeout

\* Operation o begins time.Sleep.
OperationSleep(o) ==
    /\ timeoutDemo.pc[o] = "start"
    /\ timeoutDemo' = [timeoutDemo EXCEPT
                         !.pc[o] = "sleep",
                         !.wake[o] = timeoutDemo.now + Work(o)]
    /\ UNCHANGED exceptTimeout

\* One second passes, unless the timer of the context is due.
Tick ==
    /\ timeoutDemo.now < MaxTime
    /\ timeoutDemo.ctx.done \/ timeoutDemo.now < timeoutDemo.deadline
    /\ timeoutDemo' = [timeoutDemo EXCEPT !.now = @ + 1]
    /\ UNCHANGED exceptTimeout

\* The timer of the context fires: Done is closed, Err is DeadlineExceeded.
TimerFire ==
    /\ ~timeoutDemo.ctx.done
    /\ timeoutDemo.now >= timeoutDemo.deadline
    /\ timeoutDemo' = [timeoutDemo EXCEPT
                         !.ctx = [done |-> TRUE, err |-> DeadlineExceeded,
                                  closes |-> @.closes + 1]]
    /\ UNCHANGED exceptTimeout

\* time.Sleep returns in operation o.
OperationWake(o) ==
    /\ timeoutDemo.pc[o] = "sleep"
    /\ timeoutDemo.now >= timeoutDemo.wake[o]
    /\ timeoutDemo' = [timeoutDemo EXCEPT !.pc[o] = "select"]
    /\ UNCHANGED exceptTimeout

\* select { case <-ctx.Done(): ... canceled; default: ... completed }
OperationSelect(o) ==
    /\ timeoutDemo.pc[o] = "select"
    /\ timeoutDemo' = [timeoutDemo EXCEPT
                         !.report[o] = SelectReport(timeoutDemo.ctx),
                         !.pc[o] = "done"]
    /\ UNCHANGED exceptTimeout

\* <-ctx.Done() in concurrentChannel
TimeoutMainDone ==
    /\ timeoutDemo.main = "wait"
    /\ timeoutDemo.ctx.done
    /\ timeoutDemo' = [timeoutDemo EXCEPT !.main = "print"]
    /\ UNCHANGED exceptTimeout

\* fmt.Println("main: context done")
TimeoutMainPrint ==
    /\ timeoutDemo.main = "print"
    /\ timeoutDemo' = [timeoutDemo EXCEPT !.printed = TRUE, !.main = "defer"]
    /\ UNCHANGED exceptTimeout

\* The deferred cancel() runs and concurrentChannel returns.
TimeoutDeferCancel ==
    /\ timeoutDemo.main = "defer"
    /\ timeoutDemo' = [timeoutDemo EXCEPT !.ctx = Cancel(@),
                                          !.main = "returned"]
    /\ UNCHANGED exceptTimeout

NextTimeout ==
    \/ TimeoutGo
    \/ \E o \in Operations : OperationSleep(o)
    \/ Tick
    \/ TimerFire
    \/ \E o \in Operations : OperationWake(o)
    \/ \E o \in Operations : OperationSelect(o)
    \/ TimeoutMainDone
    \/ TimeoutMainPrint
    \/ TimeoutDeferCancel

SpecTimeout == InitDemos /\ [][NextTimeout]_vars

----------------
(* Properties of errGroup.                                                  *)

\* Tasks whose own request failed (as opposed to observing the cancellation).
OwnFailures == {i \in Tasks : result[i] = FetchErr(i)}

\* C1: group.Wait returns only after every submitted task has finished: once
\* it has returned, all numUrls goroutines were started, the completion count
\* equals numUrls and no task is still running.
C1_JoinAfterAllTasks ==
    Joined => /\ submitted = numUrls
              /\ CompletionCount = numUrls
              /\ group.wg = 0
              /\ \A i \in Tasks : pc[i] \in {"idle", "finished"}
              /\ \A i \in Submitted : pc[i] = "finished"

C1_Witness == Joined /\ numUrls >= 2 /\ CompletionCount = numUrls

\* C2: if exactly one task returned an error and all the others succeeded,
\* group.Wait returns the error of that task.
C2_SingleFailureReturned ==
    (Joined /\ Cardinality(Failed) = 1) =>
        \A i \in Failed : waitErr = result[i] /\ waitErr = FetchErr(i)

C2_Witness ==
    /\ Joined /\ numUrls >= 2 /\ Cardinality(Failed) = 1
    /\ \E i \in Failed : waitErr = FetchErr(i)

\* C3: if several tasks failed, group.Wait returns one error, which is the
\* error of one of the failing tasks, and the group's context was cancelled
\* (its done channel closed) exactly once in the run.
C3_OneErrorOneCancel ==
    /\ ctx.closes <= 1
    /\ (Joined /\ Cardinality(Failed) >= 2) =>
          /\ waitErr # Nil
          /\ waitErr \in {result[i] : i \in Failed}
          /\ ctx.closes = 1

C3_Witness ==
    /\ mainPc = "done" /\ Cardinality(OwnFailures) >= 2
    /\ waitErr \in {result[i] : i \in Failed} /\ ctx.closes = 1

\* C4: if no task failed, group.Wait returns nil and errGroup returns nil.
C4_NoFailureSuccess ==
    (Joined /\ Failed = {}) =>
        /\ waitErr = Nil
        /\ mainPc = "done" => ret = Nil

C4_Witness == mainPc = "done" /\ numUrls >= 2 /\ Failed = {} /\ ret = Nil

\* C5: first error wins: once the group holds an error it never changes, and
\* the error held and returned is the one of the first task to arrive at
\* errOnce.Do with an error, whatever the submission order.
C5_FirstErrorWins ==
    /\ [][group.err # Nil => group'.err = group.err]_vars
    /\ [](arrivals # <<>> => group.err = result[Head(arrivals)])
    /\ [](Joined => waitErr = group.err)

C5_Witness ==
    /\ Joined /\ Len(arrivals) >= 2
    /\ \E i \in Failed : i < Head(arrivals)
    /\ waitErr = result[Head(arrivals)]

\* C6: whenever an error is recorded in the group the group's context is
\* cancelled, and it is cancelled by the time Wait has returned that error.
C6_ErrorImpliesCancelled ==
    /\ group.err # Nil => ctx.done
    /\ (Joined /\ waitErr # Nil) => ctx.done

C6_Witness ==
    /\ mainPc = "wait" /\ group.err # Nil /\ ctx.done
    /\ \E i \in Tasks : pc[i] \in {"check", "request"}

\* C7: the cancelled flag starts false and never goes back from true to
\* false, for the group's context and for its parent.
C7_CancelMonotonic ==
    /\ (~ctx.done /\ ~parent.done)
    /\ [][(ctx.done => ctx'.done) /\ (parent.done => parent'.done)]_vars

C7_Witness == mainPc = "done" /\ ctx.done /\ parent.done /\ group.err # Nil

\* C8: cancel is idempotent and cannot fail: a cancel call on the already
\* cancelled context of the group (by Wait, by the deferred cancel of the
\* caller) leaves the group and its context unchanged, and no done channel
\* is closed twice.
C8_CancelIdempotent ==
    /\ [][((GroupWaitReturn \/ ErrGroupReturn) /\ ctx.done)
            => UNCHANGED <<group, ctx>>]_vars
    /\ [](ctx.done => Cancel(ctx) = ctx)
    /\ [](Cancel(Cancel(ctx)) = Cancel(ctx))
    /\ [](ctx.closes <= 1 /\ parent.closes <= 1)

C8_Witness ==
    mainPc = "done" /\ group.err # Nil /\ ctx.done /\ ctx.closes = 1

\* C9: cancellation is cooperative: a task past its check stays in its
\* request when the context gets cancelled and finishes with the outcome of
\* the request, never with the cancellation; Wait does not return while a
\* task is running.
C9_Cooperative ==
    /\ [][\A i \in Tasks :
            (pc[i] = "request" /\ ctx'.done) =>
                \/ pc'[i] = "request" /\ result'[i] = result[i]
                \/ pc'[i] = "report" /\ result'[i] \in {Nil, FetchErr(i)}]_vars
    /\ [](\A i \in Tasks :
            pc[i] \in {"check", "request", "report", "exit"} => ~Joined)

C9_Witness ==
    /\ mainPc = "wait" /\ ctx.done
    /\ \E i \in Tasks : pc[i] = "request"

Phase ==
    IF Joined THEN "Completed"
    ELSE IF mainPc = "loop" /\ submitted = 0 THEN "Idle"
    ELSE "Running"

\* C13: a run goes Idle, Running, Completed in that order only: Running is
\* entered only from Idle, by the first group.Go or by group.Wait; Completed
\* is entered only from Running, when the completion count has reached the
\* number of submitted tasks; nothing leaves Completed.
C13_PhaseOrder ==
    /\ Phase = "Idle"
    /\ [][/\ Phase = "Idle" => Phase' \in {"Idle", "Running"}
          /\ (Phase # "Running" /\ Phase' = "Running") =>
                /\ Phase = "Idle"
                /\ (GroupGo /\ submitted = 0) \/ GroupWaitCall
          /\ (Phase # "Completed" /\ Phase' = "Completed") =>
                /\ Phase = "Running"
                /\ submitted = numUrls
                /\ CompletionCount = submitted
          /\ Phase = "Completed" => Phase' = "Completed"]_vars

C13_Witness ==
    mainPc = "done" /\ Phase = "Completed" /\ submitted >= 2 /\ group.wg = 0

\* C14: every task is counted as completed exactly once, failed or not: the
\* completion count never decreases and never exceeds the number of
\* submitted tasks, every finished goroutine has called wg.Done exactly
\* once, and the wait counter is zero exactly when the completion count
\* equals the number of submitted tasks.
C14_CountedOnce ==
    /\ [][CompletionCount' >= CompletionCount]_vars
    /\ [][\A i \in Tasks : pc[i] = "finished" => pc'[i] = "finished"]_vars
    /\ [](CompletionCount <= submitted /\ submitted <= numUrls)
    /\ [](group.wg = submitted - CompletionCount)
    /\ [](WgWaitReady(group) <=> CompletionCount = submitted)

C14_Witness ==
    /\ mainPc = "wait" /\ numUrls >= 2 /\ CompletionCount = numUrls
    /\ WgWaitReady(group)
    /\ \E i, j \in Submitted : result[i] = Nil /\ result[j] # Nil

----------------------------------------------------------------------------
(* Properties of syncMutex.                                                 *)

\* Goroutines of the locked half inside the Lock/Unlock section.
MutexInside == {i \in Incrs : mutexDemo.pc[i] \in {"read", "write", "unlock"}}

\* Goroutines of the locked half that have stored their increment.
MutexStored == {i \in Incrs : mutexDemo.pc[i] \in {"unlock", "exit", "finished"}}

\* C15: under the mutex no increment is lost: counter2 counts the goroutines
\* that have stored, at most one goroutine is between Lock and Unlock, its
\* holder is the one the mutex names, and the value read after wg.Wait has
\* returned is exactly the number of goroutines.
C15_MutexCounterExact ==
    /\ Cardinality(MutexInside) <= 1
    /\ \A i \in MutexInside : mutexDemo.mu = i
    /\ mutexDemo.counter2 = Cardinality(MutexStored)
    /\ mutexDemo.main = "printed" =>
          /\ mutexDemo.printed = NumIncr
          /\ mutexDemo.counter2 = NumIncr
          /\ \A i \in Incrs : mutexDemo.pc[i] = "finished"

C15_Witness ==
    /\ mutexDemo.main = "printed" /\ mutexDemo.printed = NumIncr
    /\ NumIncr >= 2

\* Goroutines of the unlocked half that have stored their increment.
RaceStored == {i \in Incrs : raceDemo.pc[i] = "done"}

\* C16: without the lock counter1 never exceeds the number of goroutines
\* (nor the number that have stored), and it is at least 1 once one of them
\* has stored; an increment can be lost, so that counter1 is below the
\* number of goroutines when all of them are done.
C16_RaceBounded ==
    /\ raceDemo.counter1 <= Cardinality(RaceStored)
    /\ raceDemo.counter1 <= NumIncr
    /\ RaceStored # {} => raceDemo.counter1 >= 1
    /\ raceDemo.main = "printed" => raceDemo.printed <= NumIncr

C16_Witness ==
    /\ raceDemo.main = "printed"
    /\ RaceStored = Incrs
    /\ raceDemo.counter1 < NumIncr
    /\ raceDemo.printed = raceDemo.counter1

----------------------------------------------------------------------------
(* Properties of syncOnce.                                                  *)

\* Goroutines whose once.Do call has returned.
OnceReturned == {i \in Callers : onceDemo.pc[i] \in {"after", "exit", "finished"}}

\* C17: expensiveOperation starts at most once and, when all goroutines are
\* done, has run exactly once; once.Do returns to no goroutine, and none
\* prints "has finished", before that single execution has completed.
C17_OnceExactlyOnce ==
    /\ onceDemo.runs <= 1
    /\ onceDemo.completed <= onceDemo.runs
    /\ OnceReturned # {} => onceDemo.runs = 1 /\ onceDemo.completed = 1
    /\ onceDemo.main = "printed" =>
          /\ onceDemo.runs = 1 /\ onceDemo.completed = 1
          /\ \A i \in Callers : onceDemo.pc[i] = "finished"

C17_Witness ==
    /\ onceDemo.main = "printed" /\ onceDemo.runs = 1
    /\ onceDemo.completed = 1

----------------------------------------------------------------------------
(* Properties of syncRWMutex.                                               *)

\* Writers between Lock and Unlock, readers between RLock and RUnlock.
WritersInside == {i \in Pairs : rwDemo.wpc[i] \in {"read", "write", "print", "unlock"}}

ReadersInside == {i \in Pairs : rwDemo.rpc[i] \in {"print", "runlock"}}

\* Writers that have left their Lock/Unlock section.
WritersCompleted == {i \in Pairs : rwDemo.wpc[i] \in {"exit", "finished"}}

\* C18: a writer inside its section is alone (no other writer, no reader);
\* the writers print 1, 2, ... in increasing order, each value once, all of
\* 1..NumPairs by the end; a reader prints the number of writers that have
\* completed their section, a value in 0..NumPairs; safeCounter is NumPairs
\* when wg.Wait has returned.
C18_RWExclusion ==
    /\ WritersInside # {} =>
          Cardinality(WritersInside) = 1 /\ ReadersInside = {}
    /\ \A k \in 1..Len(rwDemo.writes) : rwDemo.writes[k] = k
    /\ Len(rwDemo.writes) <= NumPairs
    /\ \A i \in Pairs : rwDemo.rpc[i] = "runlock" =>
          /\ rwDemo.val[i] = Cardinality(WritersCompleted)
          /\ rwDemo.val[i] \in 0..NumPairs
    /\ \A i \in Pairs : rwDemo.val[i] \in 0..NumPairs
    /\ rwDemo.main = "returned" =>
          /\ rwDemo.safeCounter = NumPairs
          /\ Len(rwDemo.writes) = NumPairs

C18_Witness ==
    /\ rwDemo.main = "returned" /\ rwDemo.safeCounter = NumPairs
    /\ rwDemo.writes = [k \in 1..NumPairs |-> k]
    /\ \E i, j \in Pairs : rwDemo.val[i] = 0 /\ rwDemo.val[j] = NumPairs

----------------------------------------------------------------------------
(* Properties of syncAtomic.                                                *)

\* Visitors between their two atomic additions.
Visiting == {i \in Visitors : atomicDemo.pc[i] = "visit"}

\* C19: visitorCount is the number of visitors between their +1 and their
\* -1, so it stays within 0..NumVisitors, as does every value the printer
\* loads; it is 0 once wg.Wait has returned and when the final count is
\* printed.
C19_VisitorCountRange ==
    /\ atomicDemo.visitorCount \in 0..NumVisitors
    /\ atomicDemo.visitorCount = Cardinality(Visiting)
    /\ atomicDemo.loaded \in 0..NumVisitors
    /\ atomicDemo.main \in {"send", "sent", "printed"} =>
          atomicDemo.visitorCount = 0
    /\ atomicDemo.main = "printed" => atomicDemo.final = 0

C19_Witness ==
    /\ atomicDemo.main = "printed" /\ atomicDemo.final = 0
    /\ atomicDemo.loaded = NumVisitors
    /\ atomicDemo.printer = "returned"

----------------------------------------------------------------------------
(* Properties of useChanStopGoroutine.                                      *)

\* C20: once the goroutine has received the stop signal it has left its for
\* loop: it runs no further iteration, so no further "Start Loop".
C20_StopsAfterSignal ==
    chanStopDemo.gotStop => chanStopDemo.afterStop = 0

----------------------------------------------------------------------------
(* Properties of useContentStopGoroutine.                                   *)

\* C21: once cancel() has been called, the goroutine, scheduled fairly and
\* unless the process ends first, takes case <-ctx.Done(), prints the
\* shutdown message and returns; the message is printed at most once, exactly
\* once when the goroutine has returned, and no loop iteration runs after the
\* cancellation was observed.
C21_ShutdownAfterCancel ==
    /\ [](ctxStopDemo.prints <= 1)
    /\ [](ctxStopDemo.loop = "returned" =>
            /\ ctxStopDemo.prints = 1
            /\ ctxStopDemo.observed
            /\ ctxStopDemo.ctx.done)
    /\ [](ctxStopDemo.observed => ctxStopDemo.loop # "select")
    /\ [][ctxStopDemo.observed =>
            ctxStopDemo'.iters = ctxStopDemo.iters]_vars
    /\ (ctxStopDemo.ctx.done ~>
            (ctxStopDemo.loop = "returned" \/ ctxStopDemo.main = "exited"))

C21_Witness ==
    /\ ctxStopDemo.loop = "returned"
    /\ ctxStopDemo.prints = 1
    /\ ctxStopDemo.iters >= 2
    /\ ctxStopDemo.main = "returned"

----------------------------------------------------------------------------
(* Properties of the goroutine programs.                                    *)

\* C22: safeGoroutine and anonymousFuncGoroutine return only after their
\* goroutine has done its work and sent on done: once the caller is past its
\* receive, the goroutine has printed its last message and sent, and exactly
\* one value was sent and received.  The send never finds the capacity-1
\* buffer full, and never more than one value is sent or received.
C22_CallerWaitsForDone ==
    /\ goDemo.main \in {"anonymousFuncGoroutine", "recvAnon", "printAnon",
                        "rest", "return", "exited"}
         /\ goDemo.prog # "noWait"
       => /\ goDemo.worker = "exit"
          /\ \E k \in 1..Len(goDemo.out) : goDemo.out[k] = "done."
          /\ goDemo.done.sent = 1
          /\ goDemo.done.received = 1
    /\ goDemo.main \in {"printAnon", "rest"}
       => /\ goDemo.anon = "exit"
          /\ \E k \in 1..Len(goDemo.out) : goDemo.out[k] = "task done."
          /\ goDemo.doneAnon.sent = 1
          /\ goDemo.doneAnon.received = 1
    /\ goDemo.worker = "send" => ChanCanSend(goDemo.done)
    /\ goDemo.anon = "send" => ChanCanSend(goDemo.doneAnon)
    /\ \A ch \in {goDemo.done, goDemo.doneAnon} :
          ch.received <= ch.sent /\ ch.sent <= 1

C22_Witness ==
    /\ goDemo.main = "rest"
    /\ goDemo.done.received = 1
    /\ goDemo.doneAnon.received = 1
    /\ goDemo.hello = "ready"

\* C23: in the version of goroutineHello without the sleep, main does not
\* wait for sayHello: after "Main process" main can always return, and once
\* it has returned the program has ended and prints nothing more, so a
\* "hello" not printed by then is never printed.
C23_MainDoesNotWait ==
    /\ [](goDemo.prog = "noWait" /\ goDemo.main = "return"
            => ENABLED GoMainExit)
    /\ [][goDemo.prog = "noWait" /\ goDemo.main = "exited"
            => goDemo'.out = goDemo.out]_vars

C23_Witness ==
    /\ goDemo.prog = "noWait"
    /\ goDemo.main = "exited"
    /\ goDemo.out = <<"Main process">>

----------------------------------------------------------------------------
(* Properties of handleChannelError.                                        *)

\* C24: no performTask goroutine finds errCh full at its send; every task
\* sends at most one outcome and exactly one once it has ended; when the
\* collecting loop is over it has received 5 outcomes, the errors being those
\* of the tasks 0, 2, 4 and the nils those of 1, 3; "finished processing all
\* tasks" is printed only after the 5 outcomes were received.
C24_FiveOutcomes ==
    LET received == errChDemo.received
        outcomes == received \o errChDemo.errCh.buf
        count(id) == Cardinality({k \in 1..Len(outcomes) : outcomes[k].id = id})
        errorIds == {received[k].id : k \in {j \in 1..Len(received) :
                                                received[j].err # Nil}}
        nilIds == {received[k].id : k \in {j \in 1..Len(received) :
                                              received[j].err = Nil}}
    IN  /\ \A id \in TaskIds :
              /\ errChDemo.pc[id] = "send" => ChanCanSend(errChDemo.errCh)
              /\ count(id) = IF errChDemo.pc[id] = "done" THEN 1 ELSE 0
        /\ errChDemo.errCh.sent = Len(outcomes)
        /\ errChDemo.errCh.received = Len(received)
        /\ errChDemo.main \in {"print", "returned"} =>
              /\ Len(received) = 5
              /\ errChDemo.errCh.buf = <<>>
              /\ errorIds = {0, 2, 4}
              /\ nilIds = {1, 3}
        /\ errChDemo.finished => Len(received) = 5

C24_Witness ==
    /\ errChDemo.finished
    /\ errChDemo.received[1].id = 3
    /\ errChDemo.received[5].id = 0
    /\ errChDemo.received[5].err = TaskFailed

----------------------------------------------------------------------------
(* Properties of initChannel.                                               *)

\* C25: initChannel never deadlocks (until it has returned some step is
\* possible), never sends on the closed ch and no receiver gets the zero
\* value of the closed ch; the first receiver gets 3 and the second 4; a
\* send has returned only when its receiver holds the value; ch is closed
\* only after both values were delivered.
C25_BothValuesDelivered ==
    LET afterSend4 == {"close", "sendBuffered", "recvBuffered",
                       "printBuffered", "closeBuffered", "returned"}
        afterSend3 == afterSend4 \cup {"go2", "send4", "sending4"}
    IN  /\ initChanDemo.main # "returned" => ENABLED NextInitChan
        /\ ~initChanDemo.panicked
        /\ \A r \in Receivers :
              /\ ~initChanDemo.zero[r]
              /\ initChanDemo.rpc[r] \in {"print", "done"}
                    => initChanDemo.value[r] = r + 2
        /\ initChanDemo.main \in afterSend3 => initChanDemo.value[1] = 3
        /\ initChanDemo.main \in afterSend4 => initChanDemo.value[2] = 4
        /\ initChanDemo.closed =>
              /\ initChanDemo.value = <<3, 4>>
              /\ initChanDemo.ch = <<>>

C25_Witness ==
    /\ initChanDemo.main = "returned"
    /\ initChanDemo.closed
    /\ initChanDemo.value = <<3, 4>>
    /\ initChanDemo.out = <<5, 4, 3>>
    /\ initChanDemo.step = 0

----------------------------------------------------------------------------
(* Properties of concurrentChannel.                                         *)

\* C26: concurrentChannel is past its wait, and has returned, only when the
\* context is done; operation2, whose select runs 2 seconds or more after
\* the context was created, finds the context done: it reports "canceled"
\* and never "completed"; a context that is done stays done.
C26_Operation2Canceled ==
    /\ [](timeoutDemo.main \in {"print", "defer", "returned"}
            => timeoutDemo.ctx.done)
    /\ [](timeoutDemo.pc[2] = "select" => timeoutDemo.ctx.done)
    /\ [](timeoutDemo.report[2] # "completed")
    /\ [](timeoutDemo.pc[2] = "done" => timeoutDemo.report[2] = "canceled")
    /\ [][timeoutDemo.ctx.done =>
            timeoutDemo'.ctx.done /\ timeoutDemo'.ctx.err = timeoutDemo.ctx.err]_vars

C26_Witness ==
    /\ timeoutDemo.main = "returned"
    /\ timeoutDemo.report[2] = "canceled"
    /\ timeoutDemo.report[1] = "completed"
    /\ timeoutDemo.ctx.err = DeadlineExceeded

====
